---- MODULE Spec2Model ----
(***************************************************************************)
(* Identity linking of wavlake/api: UserService.LinkPubkeyToUser and       *)
(* UserService.UnlinkPubkeyFromUser over the two Firestore collections     *)
(* "nostr_auth" (one document per pubkey) and "users" (one document per    *)
(* Firebase UID).  The repository holds two revisions of the unlink        *)
(* transaction: internal/services/user_service.go (writes nostr_auth, then *)
(* reads the user) and the refactored one of unnamed/part_014 (reads the   *)
(* user, then writes).  Both are modelled; a request runs one of them.     *)
(*                                                                         *)
(* Every request handler is a process.  One step of a process is one call  *)
(* on the store: the pre-check read getNostrAuth, tx.Get, tx.Set, and the  *)
(* commit that RunTransaction issues when the transaction function         *)
(* returns nil.  tx.Set only buffers a write; the commit applies the       *)
(* buffered writes atomically, provided the documents the transaction read *)
(* are unchanged, and otherwise the transaction function is run again.     *)
(* Time is a logical clock that advances by one with every request.        *)
(***************************************************************************)
EXTENDS Integers, Sequences, FiniteSets, TLC

\* ---------------------------------------------------------------- bounds
NumPubkeys == 2
NumUsers == 2
NumProcs == 2
MaxClock == 4

Pubkeys == 1..NumPubkeys
Users == 1..NumUsers
Procs == 1..NumProcs

\* ------------------------------------------------------ error messages
ErrLinkedToDifferentUser == "pubkey is already linked to a different user"
ErrPubkeyNotFound == "pubkey not found"
ErrNotOwner == "pubkey does not belong to this user"
ErrAlreadyUnlinked == "pubkey is already unlinked"
ErrGetUser == "failed to get user"
ErrUpdateUser == "failed to update user"
ErrCreateNostrAuth == "failed to create nostr auth"
ErrUpdateNostrAuth == "failed to update nostr auth"
ErrCommit == "transaction commit failed"

\* --------------------------------------------------------------- state
VARIABLES
    nostr_auth,   \* collection nostr_auth: pubkey -> NostrAuth document
    users,        \* collection users: firebase uid -> User document
    clock,        \* wall clock read by time.Now()
    pc,           \* position of each request handler
    op,           \* operation of the request: "link", "unlink" or "none"
    pk,           \* pubkey argument of the request
    uid,          \* firebaseUID argument of the request
    now,          \* the local now of LinkPubkeyToUser
    nostrAuth,    \* the record getNostrAuth returned to the request
    txRead,       \* the user document the transaction read
    txUser,       \* the local user value of the transaction function
    txWrites,     \* the writes tx.Set buffered, in order
    txLog,        \* the calls issued on the transaction, in order
    result,       \* the error the request returned ("ok" for nil)
    request,      \* the HTTP request the NIP-98 middleware served last
    response,     \* what the middleware did with that request
    mwLog,        \* the checks the middleware evaluated, in order
    touch,        \* updateLastUsed goroutines started: those whose query has
                  \* not run, and the time.Now() of those whose Update is
                  \* still to be applied
    listed,       \* what GetLinkedPubkeys returned last
    event,        \* the Event that serialize and Verify are applied to
    other,        \* an Event that differs from event in one signed field
    serialized,   \* the strings successive calls of event.serialize() returned
    verified      \* what event.Verify() returned

vars == <<nostr_auth, users, clock, pc, op, pk, uid, now, nostrAuth,
          txRead, txUser, txWrites, txLog, result,
          request, response, mwLog, touch, listed,
          event, other, serialized, verified>>

store == <<nostr_auth, users>>
args == <<op, pk, uid>>
txvars == <<txRead, txUser, txWrites, txLog>>
mwvars == <<request, response, mwLog, touch>>
evvars == <<event, other, serialized, verified>>
auxvars == <<mwvars, listed, evvars>>
svcvars == <<nostr_auth, users, clock, pc, op, pk, uid, now, nostrAuth,
             txRead, txUser, txWrites, txLog, result>>

\* ----------------------------------------------------------- documents
NoNostrAuth == [exists |-> FALSE, uid |-> 0, active |-> FALSE, linked_at |-> 0,
                last_used_at |-> 0]
NoUser == [exists |-> FALSE, active_pubkeys |-> <<>>]

Range(s) == {s[k] : k \in 1..Len(s)}

\* ------------------------------------------------------- Go strings
\* A Go string is a sequence of symbols.  A symbol is one character, or a
\* run of characters that encoding/json copies unchanged (letters, digits,
\* ':', '/', '?', '=', '-') written as one TLA+ string.
Plain == "a"
Chars == {Plain, "&", "<", "\"", "\\"}

\* The longest content string of the events serialize is applied to
MaxLen == 1

RECURSIVE StringsUpTo(_)
StringsUpTo(n) ==
    IF n = 0 THEN {<<>>}
    ELSE LET shorter == StringsUpTo(n - 1)
         IN shorter \cup {Append(s, c) : s \in shorter, c \in Chars}

\* The 64 hex digits of the x-only public key number n
PubKeyHex(n) == <<"pubkey" \o ToString(n)>>
\* 64 hex digits that are not the x coordinate of a curve point
OffCurveHex == <<"ffffffff">>
\* valid hex of fewer than 32 bytes, and a string that is not hex
ShortHex == <<"abcd">>
NotHex == <<"invalid-pubkey">>

\* ------------------------------------------------------------ int64
\* An int64 near 0, near -2^63 or near 2^63 is [hi, lo] with the value
\* hi * 2^63 + lo: hi = 0, or hi = -1 and lo >= 0, or hi = 1 and lo < 0.
\* Sums and differences wrap around modulo 2^64 as Go's do.
I64(n) == [hi |-> 0, lo |-> n]
MinInt64 == [hi |-> -1, lo |-> 0]

Wrap64(h, l) ==
    IF h = 2 \/ h = -2 \/ h = 0 THEN [hi |-> 0, lo |-> l]
    ELSE IF l >= 0 THEN [hi |-> -1, lo |-> l]
    ELSE [hi |-> 1, lo |-> l]

Sub64(x, y) == Wrap64(x.hi - y.hi, x.lo - y.lo)
Add64(x, y) == Wrap64(x.hi + y.hi, x.lo + y.lo)
Gt64(x, y) == IF x.hi # y.hi THEN x.hi > y.hi ELSE x.lo > y.lo

\* The decimal numeral of an int64, as one symbol
Itoa64(x) ==
    IF x.hi = 0 THEN ToString(x.lo)
    ELSE IF x.hi = -1 THEN "-9223372036854775808+" \o ToString(x.lo)
    ELSE "9223372036854775808" \o ToString(x.lo)

\* ------------------------------------------------- encoding/json
\* What json.Marshal writes for one symbol of a string: '"' and '\' get a
\* backslash, and with escapeHTML (which json.Marshal always sets) '<', '>'
\* and '&' are written as \u003c, \u003e and \u0026
escapeChar(c, escapeHTML) ==
    CASE c = "\"" -> <<"\\", "\"">>
      [] c = "\\" -> <<"\\", "\\">>
      [] c = "<" /\ escapeHTML -> <<"\\", "u", "0", "0", "3", "c">>
      [] c = ">" /\ escapeHTML -> <<"\\", "u", "0", "0", "3", "e">>
      [] c = "&" /\ escapeHTML -> <<"\\", "u", "0", "0", "2", "6">>
      [] OTHER -> <<c>>

RECURSIVE escapeChars(_, _)
escapeChars(s, escapeHTML) ==
    IF s = <<>> THEN <<>>
    ELSE escapeChar(Head(s), escapeHTML) \o escapeChars(Tail(s), escapeHTML)

\* A JSON string literal
encodeString(s, escapeHTML) == <<"\"">> \o escapeChars(s, escapeHTML) \o <<"\"">>

\* The encodings of the elements of an array, separated by commas
RECURSIVE Join(_)
Join(encs) ==
    IF encs = <<>> THEN <<>>
    ELSE IF Len(encs) = 1 THEN encs[1]
    ELSE encs[1] \o <<",">> \o Join(Tail(encs))

encodeArray(encs) == <<"[">> \o Join(encs) \o <<"]">>

\* A tag, a []string, and the tags, a [][]string: a nil slice is written
\* as null, a slice that is not nil as an array
encodeTag(tag) == encodeArray([k \in 1..Len(tag) |-> encodeString(tag[k], TRUE)])

encodeTags(tags) ==
    IF tags.isNil THEN <<"null">>
    ELSE encodeArray([k \in 1..Len(tags.elems) |-> encodeTag(tags.elems[k])])

\* ------------------------------------------------------ nostr.Event
NilTags == [isNil |-> TRUE, elems |-> <<>>]
Tags(elems) == [isNil |-> FALSE, elems |-> elems]

\* The encodings of the six elements of arr, in the order of the literal
jsonElements(e) ==
    << <<"0">>,
       encodeString(e.pubkey, TRUE),
       <<Itoa64(e.created_at)>>,
       <<ToString(e.kind)>>,
       encodeTags(e.tags),
       encodeString(e.content, TRUE) >>

\* serialize without the tags
serialize_notags(e) ==
    encodeArray(<< <<"0">>, encodeString(e.pubkey, TRUE), <<Itoa64(e.created_at)>>,
                   <<ToString(e.kind)>>, encodeString(e.content, TRUE) >>)

\* Event.serialize: json.Marshal(arr) as a string
serialize(e) == encodeArray(jsonElements(e))

\* sha256.Sum256: a digest stands for the string it was computed from
\* (no two strings of the model have the same digest)
Sum256(str) == [sha256 |-> str]

\* hex.EncodeToString(hash[:]): the lowercase hex digits of the digest
EncodeToString(hash) == [form |-> "lower", hash |-> hash]

\* An id that is the uppercase hex of a digest, an id that is no digest
UpperID(hash) == [form |-> "upper", hash |-> hash]
OtherID == [form |-> "other", hash |-> Sum256(<<>>)]

\* hex.DecodeString(e.PubKey): the error, the length and, for the 32 bytes
\* of a public key of the model, the number of the key
DecodePubKey(str) ==
    IF \E n \in Pubkeys : str = PubKeyHex(n)
    THEN [err |-> FALSE, len |-> 32,
          key |-> CHOOSE n \in Pubkeys : str = PubKeyHex(n)]
    ELSE IF str = OffCurveHex THEN [err |-> FALSE, len |-> 32, key |-> 0]
    ELSE IF str = ShortHex THEN [err |-> FALSE, len |-> 2, key |-> 0]
    ELSE [err |-> TRUE, len |-> 0, key |-> 0]

\* The Sig string: the hex digits of the signature that the private key of
\* public key number signer made over the digest msg (signer 0: 64 bytes
\* that are no signature), hex digits of another length, or no hex at all
SigHex(signer, msg) == [form |-> "hex64", signer |-> signer, msg |-> msg]
ShortSig == [form |-> "short", signer |-> 0, msg |-> Sum256(<<>>)]
NotHexSig == [form |-> "nothex", signer |-> 0, msg |-> Sum256(<<>>)]

\* hex.DecodeString(e.Sig)
DecodeSig(sig) ==
    [err |-> sig.form = "nothex",
     len |-> IF sig.form = "hex64" THEN 64 ELSE IF sig.form = "short" THEN 2 ELSE 0]

\* A ParsePubKey that takes the 32 bytes of an x-only key and fails only
\* when they are no point of the curve
ParsePubKeyErr_xonly(pubKeyBytes) == pubKeyBytes.key = 0

\* schnorr.ParsePubKey of github.com/decred/dcrd/dcrec/secp256k1/v4/schnorr
\* returns an error: it takes compressed keys only, of 33 bytes (a format
\* byte and the x coordinate), and returns an error for a byte string of
\* any other length, so for every string of the 32 bytes Verify lets
\* through to it
ParsePubKeyErr(pubKeyBytes) == pubKeyBytes.len # 33

\* schnorr.ParseSignature returns an error
ParseSignatureErr(sig) == sig.signer = 0

\* signature.Verify(hash[:], publicKey)
SignatureVerify(sig, hash, publicKey) == sig.signer = publicKey /\ sig.msg = hash

\* Verify without the parsing of the public key
Verify_noparse(e) ==
    LET hash == Sum256(serialize(e))
        pubKeyBytes == DecodePubKey(e.pubkey)
        sigBytes == DecodeSig(e.sig)
    IN IF EncodeToString(hash) # e.id THEN FALSE
       ELSE IF pubKeyBytes.err \/ pubKeyBytes.len # 32 THEN FALSE
       ELSE IF sigBytes.err \/ sigBytes.len # 64 THEN FALSE
       ELSE IF ParseSignatureErr(e.sig) THEN FALSE
       ELSE SignatureVerify(e.sig, hash, pubKeyBytes.key)

\* Event.Verify.  No event passes schnorr.ParsePubKey, so Verify returns
\* false for every event
Verify(e) ==
    LET hash == Sum256(serialize(e))
        pubKeyBytes == DecodePubKey(e.pubkey)
        sigBytes == DecodeSig(e.sig)
    IN IF EncodeToString(hash) # e.id THEN FALSE
       ELSE IF pubKeyBytes.err \/ pubKeyBytes.len # 32 THEN FALSE
       ELSE IF sigBytes.err \/ sigBytes.len # 64 THEN FALSE
       ELSE IF ParsePubKeyErr(pubKeyBytes) THEN FALSE
       ELSE IF ParseSignatureErr(e.sig) THEN FALSE
       ELSE SignatureVerify(e.sig, hash, pubKeyBytes.key)

\* The kind of a NIP-98 authentication event
AuthKind == 27235

\* The zero value of Event
NoEvent ==
    [id |-> OtherID, pubkey |-> <<>>, created_at |-> I64(0), kind |-> 0,
     tags |-> NilTags, content |-> <<>>, sig |-> ShortSig]

\* The serialization a client following NIP-01 hashes and signs: the same
\* array with no character escaped beyond '"' and '\', tags always an array
CanonicalElements(e) ==
    << <<"0">>,
       encodeString(e.pubkey, FALSE),
       <<Itoa64(e.created_at)>>,
       <<ToString(e.kind)>>,
       encodeArray([k \in 1..Len(e.tags.elems) |->
           encodeArray([l \in 1..Len(e.tags.elems[k]) |->
               encodeString(e.tags.elems[k][l], FALSE)])]),
       encodeString(e.content, FALSE) >>

CanonicalSerialization(e) == encodeArray(CanonicalElements(e))

\* ----------------------------------------------- the events examined
URLPlain == <<"https://api.example.com/test">>
URLQuery == <<"https://api.example.com/test?a=1", "&", "b=2">>

UTag(url) == << <<"u">>, url >>
MethodTag(method) == << <<"method">>, method >>

TagSets ==
    { NilTags,
      Tags(<<>>),
      Tags(<<UTag(URLPlain), MethodTag(<<"GET">>)>>),
      Tags(<<UTag(URLQuery), MethodTag(<<"GET">>)>>) }

CreatedAts == {I64(1), I64(2)}
Kinds == {AuthKind, 1}
Contents == StringsUpTo(MaxLen)

\* The contents of the events Verify is applied to: empty, plain, and one
\* character that json.Marshal escapes
SignedContents == {<<>>, <<Plain>>, <<"<">>}

\* Events without id and signature, with a pubkey string out of pubkeys
\* and a content out of contents
EventsOf(pubkeys, contents) ==
    { [id |-> OtherID, pubkey |-> p, created_at |-> c, kind |-> k,
       tags |-> t, content |-> s, sig |-> ShortSig] :
         p \in pubkeys, c \in CreatedAts, k \in Kinds, t \in TagSets, s \in contents }

\* Events as the tests of serialize build them
UnsignedEvents == EventsOf({PubKeyHex(1), NotHex}, Contents)

\* The ids and the signatures a client may put on an event
IDsFor(e) ==
    { EncodeToString(Sum256(serialize(e))),
      EncodeToString(Sum256(CanonicalSerialization(e))),
      UpperID(Sum256(serialize(e))),
      OtherID }

SigsFor(e) ==
    {SigHex(n, Sum256(serialize(e))) : n \in Pubkeys \cup {0}}
    \cup {SigHex(n, Sum256(CanonicalSerialization(e))) : n \in Pubkeys}
    \cup {ShortSig, NotHexSig}

SignedAs(e) == { [e EXCEPT !.id = i, !.sig = g] : i \in IDsFor(e), g \in SigsFor(e) }

SignedEvents ==
    UNION { SignedAs(e) :
            e \in EventsOf({PubKeyHex(n) : n \in Pubkeys}
                           \cup {NotHex, OffCurveHex, ShortHex}, SignedContents) }

\* contains that never finds the item
contains_never(slice, item) == FALSE

\* contains(slice, item)
contains(slice, item) == \E k \in 1..Len(slice) : slice[k] = item

\* removeString that removes nothing
removeString_keep(slice, item) == slice

\* removeString(slice, item)
RECURSIVE removeString(_, _)
removeString(slice, item) ==
    IF slice = <<>> THEN <<>>
    ELSE IF Head(slice) # item
         THEN <<Head(slice)>> \o removeString(Tail(slice), item)
         ELSE removeString(Tail(slice), item)

\* The guard of LinkPubkeyToUser left out
LinkedToDifferentUser_off(existingAuth, firebaseUID) == FALSE

\* The guard of LinkPubkeyToUser without its Active conjunct
LinkedToDifferentUser_anyowner(existingAuth, firebaseUID) ==
    /\ existingAuth.exists
    /\ existingAuth.uid # firebaseUID

\* The guard of LinkPubkeyToUser: err == nil && FirebaseUID != uid && Active
LinkedToDifferentUser(existingAuth, firebaseUID) ==
    /\ existingAuth.exists
    /\ existingAuth.uid # firebaseUID
    /\ existingAuth.active

\* UnlinkPubkeyFromUser without the ownership check
UnlinkCheck_noowner(auth, firebaseUID) ==
    IF ~auth.exists THEN ErrPubkeyNotFound
    ELSE IF ~auth.active THEN ErrAlreadyUnlinked
    ELSE "ok"

\* UnlinkPubkeyFromUser without the already-unlinked check
UnlinkCheck_noactive(auth, firebaseUID) ==
    IF ~auth.exists THEN ErrPubkeyNotFound
    ELSE IF auth.uid # firebaseUID THEN ErrNotOwner
    ELSE "ok"

\* The three checks of UnlinkPubkeyFromUser, in the order of the code
UnlinkCheck(auth, firebaseUID) ==
    IF ~auth.exists THEN ErrPubkeyNotFound
    ELSE IF auth.uid # firebaseUID THEN ErrNotOwner
    ELSE IF ~auth.active THEN ErrAlreadyUnlinked
    ELSE "ok"

\* The user value the link transaction writes: a new user when tx.Get
\* returned an error, else the stored user with the pubkey appended once
LinkUser(getErr, userDoc, pubkey) ==
    IF getErr
    THEN [exists |-> TRUE, active_pubkeys |-> <<pubkey>>]
    ELSE [exists |-> TRUE,
          active_pubkeys |-> IF ~contains(userDoc.active_pubkeys, pubkey)
                             THEN Append(userDoc.active_pubkeys, pubkey)
                             ELSE userDoc.active_pubkeys]

\* The NostrAuth value the link transaction writes
LinkNostrAuth(firebaseUID, t) ==
    [exists |-> TRUE, uid |-> firebaseUID, active |-> TRUE, linked_at |-> t,
     last_used_at |-> t]

\* An unlink that deletes the record instead of deactivating it
UnlinkNostrAuth_delete(auth) == NoNostrAuth

\* The NostrAuth value the unlink transaction writes: the record of the
\* pre-check with Active = false
UnlinkNostrAuth(auth) == [auth EXCEPT !.active = FALSE]

\* The user value the unlink transaction writes
UnlinkUser(userDoc, pubkey) ==
    [userDoc EXCEPT !.active_pubkeys = removeString(userDoc.active_pubkeys, pubkey)]

\* ------------------------------------------------- the store's commit
UserWrite(u, val) == [coll |-> "users", key |-> u, user |-> val, auth |-> NoNostrAuth]
AuthWrite(p, val) == [coll |-> "nostr_auth", key |-> p, user |-> NoUser, auth |-> val]

RECURSIVE ApplyWrites(_, _)
ApplyWrites(st, ws) ==
    IF ws = <<>> THEN st
    ELSE LET w == Head(ws)
             st1 == IF w.coll = "users"
                    THEN [st EXCEPT !.users[w.key] = w.user]
                    ELSE [st EXCEPT !.nostr_auth[w.key] = w.auth]
         IN ApplyWrites(st1, Tail(ws))

Committed(ws) == ApplyWrites([nostr_auth |-> nostr_auth, users |-> users], ws)

\* ---------------------------------------------------------------- Init
\* No request served by the middleware, nothing listed, no event examined
NoRequest ==
    [path |-> <<>>, header |-> [form |-> "missing", b64ok |-> FALSE,
                                 jsonok |-> FALSE, event |-> NoEvent],
     tls |-> FALSE, host |-> <<>>, uri |-> <<>>, method |-> <<>>]
NoResponse ==
    [status |-> 0, body |-> "", next |-> FALSE, pubkey |-> <<>>, firebase_uid |-> 0]

\* GetLinkedPubkeys has not been called: a call holds the account asked
\* for, the slice built so far and, once it has returned, the error, and
\* whether the ordered query failed and the unordered one was run
NoListing ==
    [uid |-> 0, pubkeys |-> <<>>, err |-> "none", orderedFailed |-> FALSE,
     fallback |-> FALSE, returned |-> FALSE]

\* No goroutine updateLastUsed is running for the pubkey
NoTouch == [go |-> 0, now |-> <<>>]

InitMiddleware ==
    /\ request = NoRequest
    /\ response = NoResponse
    /\ mwLog = <<>>
    /\ touch = [p \in Pubkeys |-> NoTouch]

InitService ==
    /\ nostr_auth = [p \in Pubkeys |-> NoNostrAuth]
    /\ users = [u \in Users |-> NoUser]
    /\ clock = 0
    /\ pc = [i \in Procs |-> "idle"]
    /\ op = [i \in Procs |-> "none"]
    /\ pk = [i \in Procs |-> 0]
    /\ uid = [i \in Procs |-> 0]
    /\ now = [i \in Procs |-> 0]
    /\ nostrAuth = [i \in Procs |-> NoNostrAuth]
    /\ txRead = [i \in Procs |-> NoUser]
    /\ txUser = [i \in Procs |-> NoUser]
    /\ txWrites = [i \in Procs |-> <<>>]
    /\ txLog = [i \in Procs |-> <<>>]
    /\ result = [i \in Procs |-> "none"]
    /\ listed = NoListing

Init ==
    /\ InitService
    /\ InitMiddleware
    /\ event = NoEvent
    /\ other = NoEvent
    /\ serialized = <<>>
    /\ verified = <<>>

\* The locals of a call that has returned; what its pre-check read stays on
\* record until the instance serves its next request
NoLocals(i) ==
    /\ now' = [now EXCEPT ![i] = 0]
    /\ txRead' = [txRead EXCEPT ![i] = NoUser]
    /\ txUser' = [txUser EXCEPT ![i] = NoUser]
    /\ txWrites' = [txWrites EXCEPT ![i] = <<>>]

\* A request returns err: the transaction, if any, is rolled back.  log is
\* the sequence of calls the request has issued on its transaction.
Return(i, err, log) ==
    /\ pc' = [pc EXCEPT ![i] = "idle"]
    /\ result' = [result EXCEPT ![i] = err]
    /\ txLog' = [txLog EXCEPT ![i] = log]
    /\ NoLocals(i)

\* ------------------------------------------------ LinkPubkeyToUser
\* now := time.Now(); the pre-check getNostrAuth; the guard of line 29
LinkPubkeyToUser(i, pubkey, firebaseUID) ==
    /\ pc[i] = "idle"
    /\ clock < MaxClock
    /\ clock' = clock + 1
    /\ op' = [op EXCEPT ![i] = "link"]
    /\ pk' = [pk EXCEPT ![i] = pubkey]
    /\ uid' = [uid EXCEPT ![i] = firebaseUID]
    /\ nostrAuth' = [nostrAuth EXCEPT ![i] = nostr_auth[pubkey]]
    /\ IF LinkedToDifferentUser(nostr_auth[pubkey], firebaseUID)
       THEN Return(i, ErrLinkedToDifferentUser, <<>>)
       ELSE /\ pc' = [pc EXCEPT ![i] = "link_get"]
            /\ result' = [result EXCEPT ![i] = "pending"]
            /\ now' = [now EXCEPT ![i] = clock + 1]
            /\ txLog' = [txLog EXCEPT ![i] = <<>>]
            /\ UNCHANGED <<txRead, txUser, txWrites>>
    /\ UNCHANGED store
    /\ UNCHANGED auxvars

\* userDoc, err := tx.Get(userRef) and the user value built from it
LinkTxGet(i) ==
    /\ pc[i] = "link_get"
    /\ txRead' = [txRead EXCEPT ![i] = users[uid[i]]]
    /\ txUser' = [txUser EXCEPT ![i] =
                     LinkUser(~users[uid[i]].exists, users[uid[i]], pk[i])]
    /\ txLog' = [txLog EXCEPT ![i] = Append(@, "get")]
    /\ pc' = [pc EXCEPT ![i] = "link_set_user"]
    /\ UNCHANGED <<store, clock, args, now, nostrAuth, txWrites, result>>
    /\ UNCHANGED auxvars

\* tx.Set(userRef, user)
LinkTxSetUser(i) ==
    /\ pc[i] = "link_set_user"
    /\ txWrites' = [txWrites EXCEPT ![i] = Append(@, UserWrite(uid[i], txUser[i]))]
    /\ txLog' = [txLog EXCEPT ![i] = Append(@, "set")]
    /\ pc' = [pc EXCEPT ![i] = "link_set_auth"]
    /\ UNCHANGED <<store, clock, args, now, nostrAuth, txRead, txUser, result>>
    /\ UNCHANGED auxvars

\* tx.Set(nostrAuthRef, nostrAuth); the function returns nil
LinkTxSetAuth(i) ==
    /\ pc[i] = "link_set_auth"
    /\ txWrites' = [txWrites EXCEPT ![i] =
                       Append(@, AuthWrite(pk[i], LinkNostrAuth(uid[i], now[i])))]
    /\ txLog' = [txLog EXCEPT ![i] = Append(@, "set")]
    /\ pc' = [pc EXCEPT ![i] = "commit"]
    /\ UNCHANGED <<store, clock, args, now, nostrAuth, txRead, txUser, result>>
    /\ UNCHANGED auxvars

\* ------------------------------------------- UnlinkPubkeyFromUser
\* The pre-check getNostrAuth and the three checks; rev is the revision of
\* the transaction function the serving instance runs
UnlinkPubkeyFromUser(i, pubkey, firebaseUID, rev) ==
    /\ pc[i] = "idle"
    /\ clock < MaxClock
    /\ clock' = clock + 1
    /\ op' = [op EXCEPT ![i] = "unlink"]
    /\ pk' = [pk EXCEPT ![i] = pubkey]
    /\ uid' = [uid EXCEPT ![i] = firebaseUID]
    /\ nostrAuth' = [nostrAuth EXCEPT ![i] = nostr_auth[pubkey]]
    /\ IF UnlinkCheck(nostr_auth[pubkey], firebaseUID) # "ok"
       THEN Return(i, UnlinkCheck(nostr_auth[pubkey], firebaseUID), <<>>)
       ELSE /\ pc' = [pc EXCEPT ![i] = rev]
            /\ result' = [result EXCEPT ![i] = "pending"]
            /\ txLog' = [txLog EXCEPT ![i] = <<>>]
            /\ UNCHANGED <<now, txRead, txUser, txWrites>>
    /\ UNCHANGED store
    /\ UNCHANGED auxvars

\* internal/services/user_service.go: tx.Set(nostrAuthRef, nostrAuth) first
UnlinkTxSetAuthFirst(i) ==
    /\ pc[i] = "unlink_set_auth_first"
    /\ txWrites' = [txWrites EXCEPT ![i] =
                       Append(@, AuthWrite(pk[i], UnlinkNostrAuth(nostrAuth[i])))]
    /\ txLog' = [txLog EXCEPT ![i] = Append(@, "set")]
    /\ pc' = [pc EXCEPT ![i] = "unlink_get_after_set"]
    /\ UNCHANGED <<store, clock, args, now, nostrAuth, txRead, txUser, result>>
    /\ UNCHANGED auxvars

\* internal/services/user_service.go: tx.Get(userRef) after the write.  The
\* store's client refuses a read that follows a write in a transaction, so
\* err != nil and the function returns "failed to get user".
UnlinkTxGetAfterSet(i) ==
    /\ pc[i] = "unlink_get_after_set"
    /\ Return(i, ErrGetUser, Append(txLog[i], "get"))
    /\ UNCHANGED <<store, clock, args, nostrAuth>>
    /\ UNCHANGED auxvars

\* unnamed/part_014: userDoc, err := tx.Get(userRef) first
UnlinkTxGet(i) ==
    /\ pc[i] = "unlink_get"
    /\ IF ~users[uid[i]].exists
       THEN Return(i, ErrGetUser, Append(txLog[i], "get"))
       ELSE /\ txRead' = [txRead EXCEPT ![i] = users[uid[i]]]
            /\ txUser' = [txUser EXCEPT ![i] = users[uid[i]]]
            /\ txLog' = [txLog EXCEPT ![i] = Append(@, "get")]
            /\ pc' = [pc EXCEPT ![i] = "unlink_set_auth"]
            /\ UNCHANGED <<now, txWrites, result>>
    /\ UNCHANGED <<store, clock, args, nostrAuth>>
    /\ UNCHANGED auxvars

\* unnamed/part_014: tx.Set(nostrAuthRef, updatedNostrAuth)
UnlinkTxSetAuth(i) ==
    /\ pc[i] = "unlink_set_auth"
    /\ txWrites' = [txWrites EXCEPT ![i] =
                       Append(@, AuthWrite(pk[i], UnlinkNostrAuth(nostrAuth[i])))]
    /\ txLog' = [txLog EXCEPT ![i] = Append(@, "set")]
    /\ pc' = [pc EXCEPT ![i] = "unlink_set_user"]
    /\ UNCHANGED <<store, clock, args, now, nostrAuth, txRead, txUser, result>>
    /\ UNCHANGED auxvars

\* unnamed/part_014: removeString and tx.Set(userRef, user); returns nil
UnlinkTxSetUser(i) ==
    /\ pc[i] = "unlink_set_user"
    /\ txUser' = [txUser EXCEPT ![i] = UnlinkUser(@, pk[i])]
    /\ txWrites' = [txWrites EXCEPT ![i] =
                       Append(@, UserWrite(uid[i], UnlinkUser(txUser[i], pk[i])))]
    /\ txLog' = [txLog EXCEPT ![i] = Append(@, "set")]
    /\ pc' = [pc EXCEPT ![i] = "commit"]
    /\ UNCHANGED <<store, clock, args, now, nostrAuth, txRead, result>>
    /\ UNCHANGED auxvars

\* ------------------------------------------------- RunTransaction
\* The function returned nil and the documents it read are unchanged: the
\* buffered writes are applied in one step and the request returns nil
Commit(i) ==
    /\ pc[i] = "commit"
    /\ users[uid[i]] = txRead[i]
    /\ nostr_auth' = Committed(txWrites[i]).nostr_auth
    /\ users' = Committed(txWrites[i]).users
    /\ Return(i, "ok", txLog[i])
    /\ UNCHANGED <<clock, args, nostrAuth>>
    /\ UNCHANGED auxvars

\* A document the transaction read was changed by another commit: the
\* attempt is aborted and the transaction function runs again
CommitRetry(i) ==
    /\ pc[i] = "commit"
    /\ users[uid[i]] # txRead[i]
    /\ pc' = [pc EXCEPT ![i] = IF op[i] = "link" THEN "link_get" ELSE "unlink_get"]
    /\ txRead' = [txRead EXCEPT ![i] = NoUser]
    /\ txUser' = [txUser EXCEPT ![i] = NoUser]
    /\ txWrites' = [txWrites EXCEPT ![i] = <<>>]
    /\ txLog' = [txLog EXCEPT ![i] = <<>>]
    /\ UNCHANGED <<store, clock, args, now, nostrAuth, result>>
    /\ UNCHANGED auxvars

\* tx.Set returns an error and the function goes on instead of returning it
TxSetFails_swallowed(i) ==
    /\ pc[i] \in {"link_set_user", "link_set_auth", "unlink_set_auth_first",
                  "unlink_set_auth", "unlink_set_user"}
    /\ pc' = [pc EXCEPT ![i] =
                 CASE pc[i] = "link_set_user" -> "link_set_auth"
                   [] pc[i] = "unlink_set_auth" -> "unlink_set_user"
                   [] pc[i] = "unlink_set_auth_first" -> "unlink_get_after_set"
                   [] OTHER -> "commit"]
    /\ txLog' = [txLog EXCEPT ![i] = Append(@, "set")]
    /\ UNCHANGED <<store, clock, args, now, nostrAuth, txRead, txUser, txWrites, result>>
    /\ UNCHANGED auxvars

\* tx.Set returns an error: the function returns it, nothing is committed
TxSetFails(i) ==
    /\ pc[i] \in {"link_set_user", "link_set_auth", "unlink_set_auth_first",
                  "unlink_set_auth", "unlink_set_user"}
    /\ Return(i, CASE pc[i] = "link_set_auth" -> ErrCreateNostrAuth
                   [] pc[i] \in {"unlink_set_auth_first", "unlink_set_auth"} -> ErrUpdateNostrAuth
                   [] OTHER -> ErrUpdateUser,
              Append(txLog[i], "set"))
    /\ UNCHANGED <<store, clock, args, nostrAuth>>
    /\ UNCHANGED auxvars

\* The commit itself fails in the store: nothing is applied
CommitFails(i) ==
    /\ pc[i] = "commit"
    /\ Return(i, ErrCommit, txLog[i])
    /\ UNCHANGED <<store, clock, args, nostrAuth>>
    /\ UNCHANGED auxvars

\* ------------------------------------------------- specifications
Revisions == {"unlink_set_auth_first", "unlink_get"}

StartLink(i) == \E p \in Pubkeys, u \in Users : LinkPubkeyToUser(i, p, u)
StartUnlink(i) == \E p \in Pubkeys, u \in Users, rev \in Revisions :
                      UnlinkPubkeyFromUser(i, p, u, rev)

\* Requests one at a time (each returns before the next starts), the store
\* never failing
Next ==
    \/ StartLink(1)
    \/ LinkTxGet(1)
    \/ LinkTxSetUser(1)
    \/ LinkTxSetAuth(1)
    \/ StartUnlink(1)
    \/ UnlinkTxSetAuthFirst(1)
    \/ UnlinkTxGetAfterSet(1)
    \/ UnlinkTxGet(1)
    \/ UnlinkTxSetAuth(1)
    \/ UnlinkTxSetUser(1)
    \/ Commit(1)

Spec == Init /\ [][Next]_vars

\* Requests one at a time, with tx.Set and the commit allowed to fail
NextFault ==
    \/ StartLink(1)
    \/ LinkTxGet(1)
    \/ LinkTxSetUser(1)
    \/ LinkTxSetAuth(1)
    \/ StartUnlink(1)
    \/ UnlinkTxSetAuthFirst(1)
    \/ UnlinkTxGetAfterSet(1)
    \/ UnlinkTxGet(1)
    \/ UnlinkTxSetAuth(1)
    \/ UnlinkTxSetUser(1)
    \/ Commit(1)
    \/ TxSetFails(1)
    \/ CommitFails(1)

SpecFault == Init /\ [][NextFault]_vars

\* Concurrent requests of several service instances
NextConc ==
    \E i \in Procs :
        \/ StartLink(i)
        \/ LinkTxGet(i)
        \/ LinkTxSetUser(i)
        \/ LinkTxSetAuth(i)
        \/ StartUnlink(i)
        \/ UnlinkTxSetAuthFirst(i)
        \/ UnlinkTxGetAfterSet(i)
        \/ UnlinkTxGet(i)
        \/ UnlinkTxSetAuth(i)
        \/ UnlinkTxSetUser(i)
        \/ Commit(i)
        \/ CommitRetry(i)

SpecConc == Init /\ [][NextConc]_vars

\* ------------------------------------------------ NIP-98 middleware
\* The seconds an event may be older or younger than now
Window == 60

HeartbeatPath == <<"/heartbeat">>

\* fmt.Sprintf("%s://%s%s", scheme, r.Host, r.RequestURI)
fullURL(r) ==
    (IF r.tls THEN <<"https">> ELSE <<"http">>) \o <<"://">> \o r.host \o r.uri

\* The loop over event.Tags: the value of the last tag of two or more
\* elements whose first element is name, and value if there is none
RECURSIVE tagValue(_, _, _)
tagValue(elems, name, value) ==
    IF elems = <<>> THEN value
    ELSE tagValue(Tail(elems), name,
                  IF Len(Head(elems)) >= 2 /\ Head(elems)[1] = name
                  THEN Head(elems)[2] ELSE value)

urlTag(e) == tagValue(e.tags.elems, <<"u">>, <<>>)
methodTag(e) == tagValue(e.tags.elems, <<"method">>, <<>>)

\* The timestamp check with the boundary itself out of range
TimestampOutOfRange_exclusive(t, createdAt) ==
    \/ ~Gt64(I64(Window), Sub64(I64(t), createdAt))
    \/ ~Gt64(Add64(I64(t), I64(Window)), createdAt)

\* now-event.CreatedAt > 60 || event.CreatedAt > now+60, in int64
TimestampOutOfRange(t, createdAt) ==
    \/ Gt64(Sub64(I64(t), createdAt), I64(Window))
    \/ Gt64(createdAt, Add64(I64(t), I64(Window)))

\* The URL comparison with a trailing slash ignored, which the code does
\* not do
URLMismatch_noslash(e, r) ==
    LET trim(str) == IF str # <<>> /\ str[Len(str)] = "/"
                     THEN SubSeq(str, 1, Len(str) - 1) ELSE str
    IN trim(urlTag(e)) # trim(fullURL(r))

\* urlTag != fullURL
URLMismatch(e, r) == urlTag(e) # fullURL(r)

\* methodTag != r.Method
MethodMismatch(e, r) == methodTag(e) # r.method

\* NIP98Middleware.getNostrAuth: the first document of nostr_auth with this
\* pubkey and active == true, or the error 'pubkey not found'
getNostrAuth(pubkey) ==
    LET found == {p \in Pubkeys : /\ PubKeyHex(p) = pubkey
                                  /\ nostr_auth[p].exists
                                  /\ nostr_auth[p].active}
    IN IF found = {} THEN [err |-> TRUE, key |-> 0, auth |-> NoNostrAuth]
       ELSE LET p == CHOOSE q \in found : TRUE
            IN [err |-> FALSE, key |-> p, auth |-> nostr_auth[p]]

\* The checks of Middleware in the order of the code, and when each fails
Checks ==
    <<"header", "scheme", "base64", "json", "kind", "timestamp", "url",
      "method", "verify", "lookup", "active">>

Fails(c, r, t) ==
    LET e == r.header.event
    IN CASE c = "header" -> r.header.form = "missing"
         [] c = "scheme" -> r.header.form # "nostr"
         [] c = "base64" -> ~r.header.b64ok
         [] c = "json" -> ~r.header.jsonok
         [] c = "kind" -> e.kind # AuthKind
         [] c = "timestamp" -> TimestampOutOfRange(t, e.created_at)
         [] c = "url" -> URLMismatch(e, r)
         [] c = "method" -> MethodMismatch(e, r)
         [] c = "verify" -> ~Verify(e)
         [] c = "lookup" -> getNostrAuth(e.pubkey).err
         [] OTHER -> ~getNostrAuth(e.pubkey).auth.active

\* The checks the handler evaluates: all up to the first that fails
RECURSIVE Evaluated(_, _, _)
Evaluated(cs, r, t) ==
    IF cs = <<>> THEN <<>>
    ELSE IF Fails(Head(cs), r, t) THEN <<Head(cs)>>
    ELSE <<Head(cs)>> \o Evaluated(Tail(cs), r, t)

\* http.StatusUnauthorized and http.StatusBadRequest
StatusUnauthorized == 401
StatusBadRequest == 400
StatusOK == 200
StatusInternalServerError == 500

\* The http.Error call that follows each failing check
ErrorOf(c) ==
    CASE c = "header" -> [status |-> StatusUnauthorized, body |-> "Missing Authorization header"]
      [] c = "scheme" -> [status |-> StatusUnauthorized, body |-> "Invalid Authorization scheme"]
      [] c = "base64" -> [status |-> StatusUnauthorized, body |-> "Invalid base64 encoding"]
      [] c = "json" -> [status |-> StatusUnauthorized, body |-> "Invalid event JSON"]
      [] c = "kind" -> [status |-> StatusUnauthorized, body |-> "Invalid event kind"]
      [] c = "timestamp" -> [status |-> StatusUnauthorized, body |-> "Event timestamp out of range"]
      [] c = "url" -> [status |-> StatusUnauthorized, body |-> "URL mismatch"]
      [] c = "method" -> [status |-> StatusUnauthorized, body |-> "Method mismatch"]
      [] c = "verify" -> [status |-> StatusUnauthorized, body |-> "Invalid event signature"]
      [] c = "lookup" -> [status |-> StatusUnauthorized, body |-> "Authentication failed"]
      [] OTHER -> [status |-> StatusUnauthorized, body |-> "Account inactive"]

\* What Middleware does with request r at time t: the error it writes, or
\* the call of next with pubkey and firebase_uid in the context
MiddlewareResponse(r, log, t) ==
    LET last == log[Len(log)]
    IN IF r.path = HeartbeatPath
       THEN [NoResponse EXCEPT !.next = TRUE]
       ELSE IF Fails(last, r, t)
       THEN [NoResponse EXCEPT !.status = ErrorOf(last).status,
                               !.body = ErrorOf(last).body]
       ELSE [NoResponse EXCEPT !.next = TRUE,
                               !.pubkey = r.header.event.pubkey,
                               !.firebase_uid = getNostrAuth(r.header.event.pubkey).auth.uid]

\* The handler Middleware returns, serving request r; a request that is
\* authenticated starts the goroutine updateLastUsed
Middleware(r) ==
    LET log == IF r.path = HeartbeatPath THEN <<>> ELSE Evaluated(Checks, r, clock + 1)
        resp == MiddlewareResponse(r, log, clock + 1)
    IN /\ clock < MaxClock
       /\ clock' = clock + 1
       /\ request' = r
       /\ response' = resp
       /\ mwLog' = log
       /\ touch' = IF r.path # HeartbeatPath /\ resp.next
                   THEN [touch EXCEPT ![getNostrAuth(r.header.event.pubkey).key].go = @ + 1]
                   ELSE touch
       /\ UNCHANGED <<store, pc, args, now, nostrAuth, txvars, result, listed, evvars>>

\* A sequence without its k-th element
RemoveAt(seq, k) == SubSeq(seq, 1, k - 1) \o SubSeq(seq, k + 1, Len(seq))

\* The goroutine updateLastUsed is started at part_012:127, after Verify
\* has returned true: as Verify returns false for every event, no reachable
\* state has touch[p].go > 0 and no specification takes the three steps
\* below.
\* NIP98Middleware.updateLastUsed(pubkey), the query: iter.Next() returns
\* the document with this pubkey, if there is one, and time.Now() is read
\* for the Update; without a document the goroutine returns.  Documents
\* are never deleted, so a query that found the document earlier than the
\* reading of the time finds it then too.
updateLastUsed(p) ==
    /\ touch[p].go > 0
    /\ touch' = [touch EXCEPT ![p].go = @ - 1,
                              ![p].now = IF nostr_auth[p].exists
                                         THEN Append(@, clock) ELSE @]
    /\ UNCHANGED <<store, clock, pc, args, now, nostrAuth, txvars, result,
                   request, response, mwLog, listed, evvars>>

\* NIP98Middleware.updateLastUsed(pubkey), doc.Ref.Update of one of the
\* goroutines is applied: the field last_used_at of the document as it is
\* by then gets the time the goroutine read
updateLastUsedUpdate(p) ==
    \E k \in 1..Len(touch[p].now) :
        /\ touch' = [touch EXCEPT ![p].now = RemoveAt(@, k)]
        /\ nostr_auth' = [nostr_auth EXCEPT ![p].last_used_at = touch[p].now[k]]
        /\ UNCHANGED <<users, clock, pc, args, now, nostrAuth, txvars, result,
                       request, response, mwLog, listed, evvars>>

\* updateLastUsed when the query or the Update fails: the goroutine
\* returns (the failure of Update is logged) and nothing is written
updateLastUsedFails(p) ==
    /\ \/ /\ touch[p].go > 0
          /\ touch' = [touch EXCEPT ![p].go = @ - 1]
       \/ \E k \in 1..Len(touch[p].now) :
             touch' = [touch EXCEPT ![p].now = RemoveAt(@, k)]
    /\ UNCHANGED <<store, clock, pc, args, now, nostrAuth, txvars, result,
                   request, response, mwLog, listed, evvars>>

\* ------------------------------------------- the requests examined
Host == <<"api.example.com">>
TracksPath == <<"/v1/tracks">>
QueryAB == <<"?a=1", "&", "b=2">>
QueryBA == <<"?b=2", "&", "a=1">>

\* A request without Authorization header
Bare(path, uri, method, tls) ==
    [path |-> path, header |-> NoRequest.header, tls |-> tls, host |-> Host,
     uri |-> uri, method |-> method]

GetTracks == Bare(TracksPath, TracksPath, <<"GET">>, FALSE)

Shapes == { GetTracks, Bare(TracksPath, TracksPath \o QueryAB, <<"POST">>, TRUE) }

\* What a client may put into the u tag and into the method tag of an
\* event for request r: nothing, a u tag without value, the exact value, the URL with a trailing
\* slash or with the query parameters in another order, the method in
\* lower case
UTags(r) ==
    { <<>>,
      << << <<"u">> >> >>,
      <<UTag(fullURL(r))>>,
      <<UTag(fullURL(r) \o <<"/">>)>>,
      <<UTag(fullURL([r EXCEPT !.uri = TracksPath \o QueryBA]))>> }

LowerCase(method) == IF method = <<"GET">> THEN <<"get">> ELSE <<"post">>

MethodTags(r) == { <<>>, <<MethodTag(r.method)>>, <<MethodTag(LowerCase(r.method))>> }

\* created_at of an event made for time t: at and around the ends of the
\* window, and the smallest int64
Offsets == {-61, -60, 0, 60, 61}
CreatedAtsAround(t) == {I64(t + d) : d \in Offsets} \cup {MinInt64}

\* A pubkey of the model other than n
OtherKey(n) == (n % NumPubkeys) + 1

\* The event e with id and signature made by the holder of key n, with
\* a wrong id, with the signature of another key
Signings == {"good", "badid", "forged"}
Signed(e, n, how) ==
    LET hash == Sum256(serialize(e))
    IN [e EXCEPT !.id = IF how = "badid" THEN OtherID ELSE EncodeToString(hash),
                 !.sig = SigHex(IF how = "forged" THEN OtherKey(n) ELSE n, hash)]

\* The event a client holding key n makes for request r: created_at c,
\* kind k, u tag and method tag as given
EventFor(r, n, c, k, u, m, how) ==
    Signed([NoEvent EXCEPT !.pubkey = PubKeyHex(n), !.created_at = c, !.kind = k,
                           !.tags = Tags(u \o m)], n, how)

\* The events examined: right or wrong in created_at, in the kind or in
\* the two tags, each with every way of signing
ClientEvents(r, t) ==
    { EventFor(r, n, c, AuthKind, <<UTag(fullURL(r))>>, <<MethodTag(r.method)>>, how) :
        n \in Pubkeys, c \in CreatedAtsAround(t), how \in Signings }
    \cup
    { EventFor(r, n, I64(t), k, <<UTag(fullURL(r))>>, <<MethodTag(r.method)>>, how) :
        n \in Pubkeys, k \in Kinds, how \in Signings }
    \cup
    { EventFor(r, n, I64(t), AuthKind, u, m, how) :
        n \in Pubkeys, u \in UTags(r), m \in MethodTags(r), how \in Signings }

\* The Authorization headers: none, another scheme, "Nostr " followed by
\* something that is not base64, by the base64 of something that is not
\* JSON, by the base64 of the JSON of an event
Headers(r, t) ==
    { [form |-> "missing", b64ok |-> FALSE, jsonok |-> FALSE, event |-> NoEvent],
      [form |-> "bearer", b64ok |-> FALSE, jsonok |-> FALSE, event |-> NoEvent],
      [form |-> "nostr", b64ok |-> FALSE, jsonok |-> FALSE, event |-> NoEvent],
      [form |-> "nostr", b64ok |-> TRUE, jsonok |-> FALSE, event |-> NoEvent] }
    \cup { [form |-> "nostr", b64ok |-> TRUE, jsonok |-> TRUE, event |-> e] :
             e \in ClientEvents(r, t) }

\* The requests that arrive at time t
Requests(t) ==
    { Bare(HeartbeatPath, HeartbeatPath, <<"GET">>, FALSE) }
    \cup UNION { { [r EXCEPT !.header = h] : h \in Headers(r, t) } : r \in Shapes }

\* GetLinkedPubkeys: the active records of firebaseUID by ascending
\* linked_at (records with equal linked_at by document id)
RECURSIVE OrderByLinkedAt(_)
OrderByLinkedAt(ps) ==
    IF ps = {} THEN <<>>
    ELSE LET first == CHOOSE p \in ps : \A q \in ps :
                         \/ nostr_auth[p].linked_at < nostr_auth[q].linked_at
                         \/ /\ nostr_auth[p].linked_at = nostr_auth[q].linked_at
                            /\ p <= q
         IN <<first>> \o OrderByLinkedAt(ps \ {first})

\* The records the two Where clauses select, with the inactive ones too
ActiveOf_inactive(firebaseUID) ==
    {p \in Pubkeys : nostr_auth[p].exists /\ nostr_auth[p].uid = firebaseUID}

\* Where("firebase_uid", "==", firebaseUID).Where("active", "==", true)
ActiveOf(firebaseUID) ==
    {p \in Pubkeys : /\ nostr_auth[p].exists
                      /\ nostr_auth[p].uid = firebaseUID
                      /\ nostr_auth[p].active}

\* A query without OrderBy returns the documents by ascending document id
RECURSIVE OrderByID(_)
OrderByID(ps) ==
    IF ps = {} THEN <<>>
    ELSE LET first == CHOOSE p \in ps : \A q \in ps : p <= q
         IN <<first>> \o OrderByID(ps \ {first})

ErrIterate == "failed to iterate pubkeys"
ErrQueryBoth == "failed to query pubkeys (both ordered and simple)"

\* internal/services/user_service.go, the queries succeeding
GetLinkedPubkeys(firebaseUID) ==
    /\ listed' = [NoListing EXCEPT !.uid = firebaseUID,
                                   !.pubkeys = OrderByLinkedAt(ActiveOf(firebaseUID)),
                                   !.returned = TRUE]
    /\ UNCHANGED <<svcvars, mwvars, evvars>>

\* The two revisions of GetLinkedPubkeys
ListRevisions == {"ordered_only", "with_fallback"}

\* GetLinkedPubkeys of revision rev, the ordered query.  If orderedFails,
\* iter.Next returns an error after it has returned the first `after`
\* documents; user_service.go ("ordered_only") then returns the error,
\* unnamed/part_014 ("with_fallback") keeps the slice and goes on to the
\* query without OrderBy, which reads the store when it is served.
GetLinkedPubkeysOf(rev, firebaseUID, orderedFails, after) ==
    LET ordered == OrderByLinkedAt(ActiveOf(firebaseUID))
        called == [NoListing EXCEPT !.uid = firebaseUID, !.orderedFailed = orderedFails]
    IN /\ listed.uid # 0 => listed.returned
       /\ after \in 0..Len(ordered)
       /\ listed' =
             IF ~orderedFails THEN [called EXCEPT !.pubkeys = ordered, !.returned = TRUE]
             ELSE IF rev = "ordered_only"
                  THEN [called EXCEPT !.err = ErrIterate, !.returned = TRUE]
             ELSE [called EXCEPT !.pubkeys = SubSeq(ordered, 1, after)]
       /\ UNCHANGED <<svcvars, mwvars, evvars>>

\* unnamed/part_014, the query without OrderBy of a call whose ordered
\* query failed: what it returns is appended to the slice; if simpleFails
\* it returns an error and so does the call
GetLinkedPubkeysSimple(simpleFails) ==
    LET simple == OrderByID(ActiveOf(listed.uid))
    IN /\ listed.uid # 0 /\ ~listed.returned
       /\ listed' =
             IF simpleFails
             THEN [listed EXCEPT !.pubkeys = <<>>, !.err = ErrQueryBoth,
                                 !.fallback = TRUE, !.returned = TRUE]
             ELSE [listed EXCEPT !.pubkeys = @ \o simple,
                                 !.fallback = TRUE, !.returned = TRUE]
       /\ UNCHANGED <<svcvars, mwvars, evvars>>

\* ------------------------------------------- middleware specifications
\* The state after link(1, 1) has been served at time 1
InitLinked ==
    /\ nostr_auth = [p \in Pubkeys |-> IF p = 1 THEN LinkNostrAuth(1, 1) ELSE NoNostrAuth]
    /\ users = [u \in Users |-> IF u = 1 THEN LinkUser(TRUE, NoUser, 1) ELSE NoUser]
    /\ clock = 1
    /\ pc = [i \in Procs |-> "idle"]
    /\ op = [i \in Procs |-> IF i = 1 THEN "link" ELSE "none"]
    /\ pk = [i \in Procs |-> IF i = 1 THEN 1 ELSE 0]
    /\ uid = [i \in Procs |-> IF i = 1 THEN 1 ELSE 0]
    /\ now = [i \in Procs |-> 0]
    /\ nostrAuth = [i \in Procs |-> NoNostrAuth]
    /\ txRead = [i \in Procs |-> NoUser]
    /\ txUser = [i \in Procs |-> NoUser]
    /\ txWrites = [i \in Procs |-> <<>>]
    /\ txLog = [i \in Procs |-> IF i = 1 THEN <<"get", "set", "set">> ELSE <<>>]
    /\ result = [i \in Procs |-> IF i = 1 THEN "ok" ELSE "none"]
    /\ listed = NoListing
    /\ event = NoEvent
    /\ other = NoEvent
    /\ serialized = <<>>
    /\ verified = <<>>

\* Time passes before the request is served
Tick ==
    /\ response = NoResponse
    /\ clock + 1 < MaxClock
    /\ clock' = clock + 1
    /\ UNCHANGED <<store, pc, args, now, nostrAuth, txvars, result, auxvars>>

\* The request of the initial state is served
ServeRequest == response = NoResponse /\ Middleware(request)


\* The middleware alone over a directory that holds one active link: a
\* request made for the time after the link is served then or later
InitRequest ==
    /\ InitLinked
    /\ request \in Requests(clock + 1)
    /\ response = NoResponse
    /\ mwLog = <<>>
    /\ touch = [p \in Pubkeys |-> NoTouch]

NextMiddleware ==
    \/ Tick
    \/ ServeRequest

SpecMiddleware == InitRequest /\ [][NextMiddleware]_vars

\* The requests of one account at a time, as in NextListingConc
LinkOwn == StartLink(1) /\ uid'[1] = 1
UnlinkOwn == StartUnlink(1) /\ uid'[1] = 1

\* Link, unlink and list requests of every account, one after another
ListAny == \E u \in Users : GetLinkedPubkeys(u)

NextDirectory ==
    \/ StartLink(1)
    \/ LinkTxGet(1)
    \/ LinkTxSetUser(1)
    \/ LinkTxSetAuth(1)
    \/ StartUnlink(1)
    \/ UnlinkTxSetAuthFirst(1)
    \/ UnlinkTxGetAfterSet(1)
    \/ UnlinkTxGet(1)
    \/ UnlinkTxSetAuth(1)
    \/ UnlinkTxSetUser(1)
    \/ Commit(1)
    \/ ListAny

SpecDirectory == Init /\ [][NextDirectory]_vars

\* ------------------------------------------- reads that fail in link
\* LinkPubkeyToUser when getNostrAuth returns a store error: err != nil, the
\* guard of line 29 is false whatever the record is, the transaction starts
LinkLookupFails(i, pubkey, firebaseUID) ==
    /\ pc[i] = "idle"
    /\ clock < MaxClock
    /\ clock' = clock + 1
    /\ op' = [op EXCEPT ![i] = "link"]
    /\ pk' = [pk EXCEPT ![i] = pubkey]
    /\ uid' = [uid EXCEPT ![i] = firebaseUID]
    /\ nostrAuth' = [nostrAuth EXCEPT ![i] = NoNostrAuth]
    /\ pc' = [pc EXCEPT ![i] = "link_get"]
    /\ result' = [result EXCEPT ![i] = "pending"]
    /\ now' = [now EXCEPT ![i] = clock + 1]
    /\ txLog' = [txLog EXCEPT ![i] = <<>>]
    /\ UNCHANGED <<txRead, txUser, txWrites>>
    /\ UNCHANGED store
    /\ UNCHANGED auxvars

\* tx.Get(userRef) returns a store error although the document may exist:
\* err != nil, so the function builds a new user with this pubkey alone.
\* The failed read gives the commit nothing to validate: txRead is the
\* stored document.
LinkTxGetFails(i) ==
    /\ pc[i] = "link_get"
    /\ txRead' = [txRead EXCEPT ![i] = users[uid[i]]]
    /\ txUser' = [txUser EXCEPT ![i] = LinkUser(TRUE, users[uid[i]], pk[i])]
    /\ txLog' = [txLog EXCEPT ![i] = Append(@, "get")]
    /\ pc' = [pc EXCEPT ![i] = "link_set_user"]
    /\ UNCHANGED <<store, clock, args, now, nostrAuth, txWrites, result>>
    /\ UNCHANGED auxvars

StartLinkLookupFails == \E p \in Pubkeys, u \in Users : LinkLookupFails(1, p, u)

\* Link requests one at a time, with the reads of the store allowed to
\* fail; after a failed read the commit may succeed or fail
NextReadFault ==
    \/ StartLink(1)
    \/ StartLinkLookupFails
    \/ LinkTxGet(1)
    \/ LinkTxGetFails(1)
    \/ LinkTxSetUser(1)
    \/ LinkTxSetAuth(1)
    \/ Commit(1)
    \/ CommitFails(1)

SpecReadFault == Init /\ [][NextReadFault]_vars

\* ------------------------------------------- listing
\* The directory after the pubkeys were linked one after another, at the
\* times 1, 2, ..., to any accounts, and some of them unlinked afterwards:
\* no two records have the same linked_at
LinkTimes == 1..NumPubkeys

LinkedRecords ==
    {NoNostrAuth} \cup
    { [exists |-> TRUE, uid |-> u, active |-> a, linked_at |-> t, last_used_at |-> t] :
        u \in Users, a \in BOOLEAN, t \in LinkTimes }

InitListing ==
    /\ nostr_auth \in [Pubkeys -> LinkedRecords]
    /\ \A p, q \in Pubkeys :
          (p # q /\ nostr_auth[p].exists /\ nostr_auth[q].exists)
          => nostr_auth[p].linked_at # nostr_auth[q].linked_at
    /\ users = [u \in Users |->
                   IF \E p \in Pubkeys : nostr_auth[p].exists /\ nostr_auth[p].uid = u
                   THEN [exists |-> TRUE,
                         active_pubkeys |-> OrderByLinkedAt(ActiveOf(u))]
                   ELSE NoUser]
    /\ clock = NumPubkeys
    /\ pc = [i \in Procs |-> "idle"]
    /\ op = [i \in Procs |-> "none"]
    /\ pk = [i \in Procs |-> 0]
    /\ uid = [i \in Procs |-> 0]
    /\ now = [i \in Procs |-> 0]
    /\ nostrAuth = [i \in Procs |-> NoNostrAuth]
    /\ txRead = [i \in Procs |-> NoUser]
    /\ txUser = [i \in Procs |-> NoUser]
    /\ txWrites = [i \in Procs |-> <<>>]
    /\ txLog = [i \in Procs |-> <<>>]
    /\ result = [i \in Procs |-> "none"]
    /\ listed = NoListing
    /\ InitMiddleware
    /\ event = NoEvent
    /\ other = NoEvent
    /\ serialized = <<>>
    /\ verified = <<>>

\* A call of GetLinkedPubkeys, served by either revision, with the queries
\* succeeding or failing
ListCall ==
    \E rev \in ListRevisions, u \in Users, orderedFails \in BOOLEAN,
       after \in 0..NumPubkeys :
        GetLinkedPubkeysOf(rev, u, orderedFails, after)
ListSimple == \E simpleFails \in BOOLEAN : GetLinkedPubkeysSimple(simpleFails)

\* Calls of GetLinkedPubkeys over a directory that does not change
NextListing == ListCall \/ ListSimple

SpecListing == InitListing /\ [][NextListing]_vars

\* Calls of GetLinkedPubkeys while account 1 links and unlinks: a commit
\* can fall between the ordered query of a call and its unordered one
NextListingConc ==
    \/ ListCall
    \/ ListSimple
    \/ LinkOwn
    \/ LinkTxGet(1)
    \/ LinkTxSetUser(1)
    \/ LinkTxSetAuth(1)
    \/ UnlinkOwn
    \/ UnlinkTxSetAuthFirst(1)
    \/ UnlinkTxGetAfterSet(1)
    \/ UnlinkTxGet(1)
    \/ UnlinkTxSetAuth(1)
    \/ UnlinkTxSetUser(1)
    \/ Commit(1)

SpecListingConc == InitListing /\ [][NextListingConc]_vars

\* ----------------------------------------------------- HTTP handlers
ErrPubkeyMismatch == "Request pubkey does not match authenticated pubkey"

\* The errors of link and unlink that come from the store, and those that
\* the checks of the service make
StoreErrors == {ErrGetUser, ErrUpdateUser, ErrCreateNostrAuth, ErrUpdateNostrAuth, ErrCommit}
CheckErrors == {ErrLinkedToDifferentUser, ErrPubkeyNotFound, ErrNotOwner, ErrAlreadyUnlinked}

\* AuthHandlers.LinkPubkey and AuthHandlers.UnlinkPubkey: the status written
\* for the error the service returned (nil: "ok")
HandlerStatus(err) == IF err # "ok" THEN StatusBadRequest ELSE StatusOK

\* The handler that trusts the pubkey of the request body
LinkPubkey_bodywins(i, nostrPubkey, reqPubKey, firebaseUID) ==
    LinkPubkeyToUser(i, IF reqPubKey # 0 THEN reqPubKey ELSE nostrPubkey, firebaseUID)

\* AuthHandlers.LinkPubkey with nostr_pubkey and firebase_uid in the context
\* and req.PubKey in the body (0: no body, no pubkey in it, or "")
LinkPubkey(i, nostrPubkey, reqPubKey, firebaseUID) ==
    IF reqPubKey # 0 /\ reqPubKey # nostrPubkey
    THEN /\ pc[i] = "idle"
         /\ clock < MaxClock
         /\ clock' = clock + 1
         /\ op' = [op EXCEPT ![i] = "none"]
         /\ pk' = [pk EXCEPT ![i] = 0]
         /\ uid' = [uid EXCEPT ![i] = 0]
         /\ nostrAuth' = [nostrAuth EXCEPT ![i] = NoNostrAuth]
         /\ Return(i, ErrPubkeyMismatch, <<>>)
         /\ UNCHANGED store
         /\ UNCHANGED auxvars
    ELSE LinkPubkeyToUser(i, nostrPubkey, firebaseUID)

\* Link requests one after another, with every body a client may send
HandleLink ==
    \E p \in Pubkeys, b \in Pubkeys \cup {0}, u \in Users : LinkPubkey(1, p, b, u)

NextHandlers ==
    \/ HandleLink
    \/ LinkTxGet(1)
    \/ LinkTxSetUser(1)
    \/ LinkTxSetAuth(1)
    \/ Commit(1)

SpecHandlers == Init /\ [][NextHandlers]_vars

\* --------------------------------------- serialize and Verify alone
\* How often the tests call serialize on one event
Calls == 2

\* event.serialize() or other.serialize() is called and what it returned
\* is kept with the event it was called on
EventSerialize(ev) ==
    /\ Len(serialized) < Calls
    /\ serialized' = Append(serialized, [ev |-> ev, out |-> serialize(ev)])
    /\ UNCHANGED <<svcvars, mwvars, listed, event, other, verified>>

\* The events that differ from e in the content, in the tags or in
\* created_at and in nothing else
Changed(e) ==
    ( {[e EXCEPT !.content = s] : s \in Contents}
      \cup {[e EXCEPT !.tags = t] : t \in TagSets}
      \cup {[e EXCEPT !.created_at = c] : c \in CreatedAts} ) \ {e}

\* event2 := event; one signed field of event2 is assigned
ChangeField ==
    /\ other = event
    /\ other' \in Changed(event)
    /\ UNCHANGED <<svcvars, mwvars, listed, event, serialized, verified>>

SerializeEvent == EventSerialize(event)
SerializeOther == EventSerialize(other)

InitSerialize ==
    /\ InitService
    /\ InitMiddleware
    /\ event \in UnsignedEvents
    /\ other = event
    /\ serialized = <<>>
    /\ verified = <<>>

NextSerialize ==
    \/ SerializeEvent
    \/ SerializeOther
    \/ ChangeField

SpecSerialize == InitSerialize /\ [][NextSerialize]_vars

\* result := event.Verify()
EventVerify ==
    /\ verified = <<>>
    /\ verified' = <<Verify(event)>>
    /\ UNCHANGED <<svcvars, mwvars, listed, event, other, serialized>>

InitVerify ==
    /\ InitService
    /\ InitMiddleware
    /\ event \in SignedEvents
    /\ other = event
    /\ serialized = <<>>
    /\ verified = <<>>

NextVerify == EventVerify

SpecVerify == InitVerify /\ [][NextVerify]_vars

\* ------------------------------------------------------- type invariant
TypeOK ==
    /\ \A p \in Pubkeys : nostr_auth[p].uid \in Users \cup {0}
    /\ clock \in 0..MaxClock
    /\ \A i \in Procs : op[i] \in {"none", "link", "unlink"}

\* ------------------------------------------------------------ properties
\* The pubkeys whose link record is active under account A
ActiveUnder(A) ==
    {p \in Pubkeys : nostr_auth[p].exists /\ nostr_auth[p].active /\ nostr_auth[p].uid = A}

\* The stored active_pubkeys of account A, as a set
StoredActive(A) == IF users[A].exists THEN Range(users[A].active_pubkeys) ELSE {}

\* How often x occurs in the slice
Count(slice, x) == Cardinality({k \in 1..Len(slice) : slice[k] = x})

\* No request is being served
Quiescent == \A i \in Procs : pc[i] = "idle"

\* C1: after any sequence of link and unlink requests run one at a time,
\* the stored active_pubkeys of every account is exactly the set of pubkeys
\* whose link record is active under that account.
C1_ActivePubkeysInSync ==
    Quiescent => \A A \in Users : StoredActive(A) = ActiveUnder(A)

\* Two pubkeys were linked and one of them unlinked again
C1_Witness ==
    /\ Quiescent
    /\ \E A \in Users, p, q \in Pubkeys :
          /\ p # q
          /\ ActiveUnder(A) = {p}
          /\ users[A].active_pubkeys = <<p>>
          /\ nostr_auth[q].exists /\ ~nostr_auth[q].active

\* C2: under any interleaving of concurrent link and unlink requests, every
\* state with no request in progress has every account's active_pubkeys
\* equal to the set of pubkeys active under it, and no pubkey in the
\* active_pubkeys of two accounts.
C2_ConsistentWhenQuiescent ==
    Quiescent =>
        /\ \A A \in Users : StoredActive(A) = ActiveUnder(A)
        /\ \A A, B \in Users : A # B => StoredActive(A) \cap StoredActive(B) = {}

\* A step in which instance i starts serving a link, an unlink request
LinkCall(i) ==
    /\ pc[i] = "idle" /\ clock' = clock + 1 /\ op'[i] = "link"
    /\ LinkPubkeyToUser(i, pk'[i], uid'[i])
UnlinkCall(i) ==
    /\ pc[i] = "idle" /\ clock' = clock + 1 /\ op'[i] = "unlink"
    /\ \E rev \in Revisions : UnlinkPubkeyFromUser(i, pk'[i], uid'[i], rev)

\* C3: link(P, B) while the record of P is active under another account A
\* returns the already-linked error and changes no link or account record.
C3_ActiveLinkNotHijacked ==
    [][\A i \in Procs :
          ( /\ LinkCall(i)
            /\ nostr_auth[pk'[i]].exists /\ nostr_auth[pk'[i]].active
            /\ nostr_auth[pk'[i]].uid # uid'[i] )
          => /\ result'[i] = ErrLinkedToDifferentUser
             /\ pc'[i] = "idle"
             /\ nostr_auth' = nostr_auth
             /\ users' = users]_vars

\* A link was rejected and the pubkey is still active under its owner
C3_Witness ==
    \E i \in Procs :
        /\ op[i] = "link" /\ pc[i] = "idle"
        /\ result[i] = ErrLinkedToDifferentUser
        /\ nostr_auth[pk[i]].active
        /\ nostr_auth[pk[i]].uid # uid[i]
        /\ pk[i] \in StoredActive(nostr_auth[pk[i]].uid)

\* C4: of two link requests link(P, A) and link(P, B), A # B, that start
\* while P is unlinked or inactive, at most one succeeds.  Stated for the
\* states in which these two are the only requests issued so far.
C4_AtMostOneLinkSucceeds ==
    \A i, j \in Procs :
        ~ ( /\ i # j /\ clock = 2
            /\ op[i] = "link" /\ op[j] = "link"
            /\ pk[i] = pk[j] /\ uid[i] # uid[j]
            /\ result[i] = "ok" /\ result[j] = "ok" )

\* C5: ownership transfer law.  A link(P, B) on a record that is inactive
\* and last owned by A # B is not rejected, its transaction ends with
\* success, and its commit leaves P active under B, P in B's active_pubkeys
\* and not in A's; a link(P, B) on a record active under A # B is rejected
\* and leaves the record as it is.
C5_OwnershipTransfer ==
    [][\A i \in Procs :
          /\ ( /\ LinkCall(i)
               /\ nostr_auth[pk'[i]].exists /\ ~nostr_auth[pk'[i]].active
               /\ nostr_auth[pk'[i]].uid # uid'[i] )
             => (pc'[i] = "link_get" /\ result'[i] = "pending")
          /\ (op[i] = "link" /\ pc[i] # "idle" /\ pc'[i] = "idle")
             => result'[i] = "ok"
          /\ ( /\ op[i] = "link" /\ Commit(i)
               /\ nostr_auth[pk[i]].exists /\ ~nostr_auth[pk[i]].active
               /\ nostr_auth[pk[i]].uid # uid[i] )
             => /\ result'[i] = "ok"
                /\ nostr_auth'[pk[i]].active /\ nostr_auth'[pk[i]].uid = uid[i]
                /\ pk[i] \in Range(users'[uid[i]].active_pubkeys)
                /\ pk[i] \notin Range(users'[nostr_auth[pk[i]].uid].active_pubkeys)
          /\ ( /\ LinkCall(i)
               /\ nostr_auth[pk'[i]].exists /\ nostr_auth[pk'[i]].active
               /\ nostr_auth[pk'[i]].uid # uid'[i] )
             => /\ result'[i] = ErrLinkedToDifferentUser
                /\ nostr_auth'[pk'[i]] = nostr_auth[pk'[i]]]_vars

\* link(P, A), unlink(P, A) and link(P, B) have succeeded in this order:
\* the third request found the record inactive under A and made B the owner
C5_Witness ==
    /\ Quiescent /\ clock = 3
    /\ \E i \in Procs, p \in Pubkeys, A \in Users :
          /\ op[i] = "link" /\ result[i] = "ok" /\ pk[i] = p
          /\ A # uid[i]
          /\ nostrAuth[i].exists /\ ~nostrAuth[i].active /\ nostrAuth[i].uid = A
          /\ nostr_auth[p].active /\ nostr_auth[p].uid = uid[i]
          /\ nostr_auth[p].linked_at = 3
          /\ users[uid[i]].active_pubkeys = <<p>>
          /\ users[A].exists /\ users[A].active_pubkeys = <<>>

\* C6: idempotent re-link.  A link(P, A) on a pubkey without a record or
\* on a record already active under A is not rejected, every link
\* transaction ends with success, and the commit of the second link leaves
\* the record of P active under A with P exactly once in A's active_pubkeys.
C6_IdempotentRelink ==
    [][\A i \in Procs :
          /\ (LinkCall(i) /\ ~nostr_auth[pk'[i]].exists)
             => (pc'[i] = "link_get" /\ result'[i] = "pending")
          /\ (op[i] = "link" /\ pc[i] # "idle" /\ pc'[i] = "idle")
             => result'[i] = "ok"
          /\ ( /\ LinkCall(i)
               /\ nostr_auth[pk'[i]].exists /\ nostr_auth[pk'[i]].active
               /\ nostr_auth[pk'[i]].uid = uid'[i] )
             => (pc'[i] = "link_get" /\ result'[i] = "pending")
          /\ ( /\ op[i] = "link" /\ Commit(i)
               /\ nostr_auth[pk[i]].exists /\ nostr_auth[pk[i]].active
               /\ nostr_auth[pk[i]].uid = uid[i] )
             => /\ result'[i] = "ok"
                /\ nostr_auth'[pk[i]].exists /\ nostr_auth'[pk[i]].active
                /\ nostr_auth'[pk[i]].uid = uid[i]
                /\ Count(users'[uid[i]].active_pubkeys, pk[i]) = 1
                /\ \A q \in Pubkeys \ {pk[i]} : nostr_auth'[q] = nostr_auth[q]]_vars

\* link(P, A) has succeeded twice: the second found P active under A
C6_Witness ==
    /\ Quiescent /\ clock = 2
    /\ \E i \in Procs :
          /\ op[i] = "link" /\ result[i] = "ok"
          /\ nostrAuth[i].exists /\ nostrAuth[i].active
          /\ nostrAuth[i].uid = uid[i] /\ nostrAuth[i].linked_at = 1
          /\ nostr_auth[pk[i]].active /\ nostr_auth[pk[i]].uid = uid[i]
          /\ nostr_auth[pk[i]].linked_at = 2
          /\ users[uid[i]].active_pubkeys = <<pk[i]>>

\* C7: unlink(P, B) by an account that is not the recorded owner of P
\* returns the does-not-belong error and changes no record.
C7_UnlinkByNonOwnerRejected ==
    [][\A i \in Procs :
          ( /\ UnlinkCall(i)
            /\ nostr_auth[pk'[i]].exists
            /\ nostr_auth[pk'[i]].uid # uid'[i] )
          => /\ result'[i] = ErrNotOwner
             /\ pc'[i] = "idle"
             /\ nostr_auth' = nostr_auth
             /\ users' = users]_vars

\* An unlink by a non-owner was rejected; P is still active under its owner
C7_Witness ==
    \E i \in Procs :
        /\ op[i] = "unlink" /\ pc[i] = "idle"
        /\ result[i] = ErrNotOwner
        /\ nostr_auth[pk[i]].active
        /\ nostr_auth[pk[i]].uid # uid[i]
        /\ pk[i] \in StoredActive(nostr_auth[pk[i]].uid)

\* C8: unlink of a pubkey without a record returns 'pubkey not found' and
\* creates no record; unlink by the recorded owner of an inactive record
\* returns 'pubkey is already unlinked'; neither changes any record.
C8_UnlinkMissingOrInactive ==
    [][\A i \in Procs :
          /\ (UnlinkCall(i) /\ ~nostr_auth[pk'[i]].exists)
             => /\ result'[i] = ErrPubkeyNotFound
                /\ pc'[i] = "idle"
                /\ ~nostr_auth'[pk'[i]].exists
                /\ nostr_auth' = nostr_auth
                /\ users' = users
          /\ ( /\ UnlinkCall(i)
               /\ nostr_auth[pk'[i]].exists /\ nostr_auth[pk'[i]].uid = uid'[i]
               /\ ~nostr_auth[pk'[i]].active )
             => /\ result'[i] = ErrAlreadyUnlinked
                /\ pc'[i] = "idle"
                /\ ~nostr_auth'[pk'[i]].active
                /\ nostr_auth' = nostr_auth
                /\ users' = users]_vars

\* The owner's second unlink was refused, and a pubkey still has no record
C8_Witness ==
    \E i \in Procs, q \in Pubkeys :
        /\ op[i] = "unlink" /\ pc[i] = "idle"
        /\ result[i] = ErrAlreadyUnlinked
        /\ nostr_auth[pk[i]].exists /\ ~nostr_auth[pk[i]].active
        /\ nostr_auth[pk[i]].uid = uid[i]
        /\ ~nostr_auth[q].exists

\* C9: link and unlink are all-or-nothing.  Every step that changes a
\* stored record is the commit of one request and applies that request's
\* write to the link record together with its write to the account record;
\* a request whose transaction ends in an error leaves both collections
\* as they were.
C9_AllOrNothing ==
    [][ /\ (nostr_auth' # nostr_auth \/ users' # users)
           => \E i \in Procs :
                 /\ pc[i] = "commit" /\ pc'[i] = "idle" /\ result'[i] = "ok"
                 /\ \E a, b \in 1..Len(txWrites[i]) :
                       /\ txWrites[i][a].coll = "users"
                       /\ txWrites[i][a].key = uid[i]
                       /\ txWrites[i][b].coll = "nostr_auth"
                       /\ txWrites[i][b].key = pk[i]
                       /\ users' = [users EXCEPT ![uid[i]] = txWrites[i][a].user]
                       /\ nostr_auth' = [nostr_auth EXCEPT ![pk[i]] = txWrites[i][b].auth]
        /\ \A i \in Procs :
              (pc[i] # "idle" /\ pc'[i] = "idle" /\ result'[i] # "ok")
              => (nostr_auth' = nostr_auth /\ users' = users)
      ]_vars

\* An unlink whose commit failed has left P active and in the owner's list
C9_Witness ==
    \E i \in Procs :
        /\ op[i] = "unlink" /\ pc[i] = "idle"
        /\ result[i] = ErrCommit
        /\ nostr_auth[pk[i]].active /\ nostr_auth[pk[i]].uid = uid[i]
        /\ pk[i] \in StoredActive(uid[i])

\* C10: inside the transaction of link and of unlink no read is issued
\* after a write.
C10_ReadsBeforeWrites ==
    \A i \in Procs : \A k, l \in 1..Len(txLog[i]) :
        (txLog[i][k] = "set" /\ k < l) => txLog[i][l] # "get"

\* The elements of a serialized JSON array: the symbols between its
\* brackets, split at the commas outside strings and nested arrays
RECURSIVE SplitTop(_, _, _, _, _)
SplitTop(str, depth, inStr, esc, acc) ==
    IF str = <<>> THEN acc
    ELSE LET c == Head(str)
             rest == Tail(str)
             put == [acc EXCEPT ![Len(acc)] = Append(@, c)]
         IN IF inStr
            THEN SplitTop(rest, depth, esc \/ c # "\"", ~esc /\ c = "\\", put)
            ELSE IF c = "\"" THEN SplitTop(rest, depth, TRUE, FALSE, put)
            ELSE IF c = "[" THEN SplitTop(rest, depth + 1, FALSE, FALSE,
                                          IF depth = 0 THEN acc ELSE put)
            ELSE IF c = "]" THEN SplitTop(rest, depth - 1, FALSE, FALSE,
                                          IF depth = 1 THEN acc ELSE put)
            ELSE IF c = "," /\ depth = 1
                 THEN SplitTop(rest, depth, FALSE, FALSE, Append(acc, <<>>))
            ELSE SplitTop(rest, depth, FALSE, FALSE, put)

ElementsOf(str) == SplitTop(str, 0, FALSE, FALSE, << <<>> >>)

\* C12: Verify returns true only for an event whose id is the lowercase
\* hex SHA-256 of its canonical serialization, whose pubkey decodes to 32
\* bytes and parses as a key, whose sig decodes to 64 bytes and parses as a
\* signature, and whose signature verifies over that hash under that key.
C12_VerifyOnlyIfAllFour ==
    verified = <<TRUE>> =>
        LET hash == Sum256(CanonicalSerialization(event))
            pubKeyBytes == DecodePubKey(event.pubkey)
            sigBytes == DecodeSig(event.sig)
        IN /\ event.id = EncodeToString(hash)
           /\ ~pubKeyBytes.err /\ pubKeyBytes.len = 32 /\ ~ParsePubKeyErr(pubKeyBytes)
           /\ ~sigBytes.err /\ sigBytes.len = 64 /\ ~ParseSignatureErr(event.sig)
           /\ SignatureVerify(event.sig, hash, pubKeyBytes.key)

\* Verify was applied to an event with the id and the signature its key
\* holder makes, a pubkey of 32 bytes and a signature of 64, and returned
\* false: the pubkey did not parse as a key
C12_Witness ==
    /\ verified = <<FALSE>>
    /\ \E n \in Pubkeys :
          /\ event.pubkey = PubKeyHex(n)
          /\ event.id = EncodeToString(Sum256(serialize(event)))
          /\ event.id = EncodeToString(Sum256(CanonicalSerialization(event)))
          /\ event.sig = SigHex(n, Sum256(serialize(event)))

\* C13: for every event, nil or empty tags and empty content included, the
\* fifth element of the serialization is an array and the sixth a string.
C13_TagsArrayContentString ==
    \A k \in 1..Len(serialized) :
        LET els == ElementsOf(serialized[k].out)
        IN /\ Len(els) = 6
           /\ els[5] # <<>> /\ Head(els[5]) = "["
           /\ els[5] # <<"null">>
           /\ els[6] # <<>> /\ Head(els[6]) = "\""

\* C14: the serialization is the array [0, pubkey, created_at, kind, tags,
\* content] in this order, with the pubkey, every tag value and the content
\* character for character as given, nothing escaped beyond '"' and '\'.
C14_CharacterForCharacter ==
    \A k \in 1..Len(serialized) :
        LET ev == serialized[k].ev
            els == ElementsOf(serialized[k].out)
        IN /\ Len(els) = 6
           /\ els[1] = <<"0">>
           /\ els[2] = encodeString(ev.pubkey, FALSE)
           /\ els[3] = <<Itoa64(ev.created_at)>>
           /\ els[4] = <<ToString(ev.kind)>>
           /\ ~ev.tags.isNil => els[5] = CanonicalElements(ev)[5]
           /\ els[6] = encodeString(ev.content, FALSE)

\* C15: two calls of serialize on the same event return the same string,
\* and calls on two events that differ in the content, in the tags or in
\* created_at only return different strings.
C15_DeterministicAndSensitive ==
    \A a, b \in 1..Len(serialized) :
        (serialized[a].ev = serialized[b].ev) <=> (serialized[a].out = serialized[b].out)

\* serialize was called on an event and on one with another content
C15_Witness ==
    /\ Len(serialized) = 2
    /\ serialized[1].ev = event /\ serialized[2].ev = other
    /\ other.content # event.content
    /\ other.tags = event.tags /\ other.created_at = event.created_at
    /\ serialized[1].out # serialized[2].out

\* C11: a link record is never deleted.  Every step of link, unlink and
\* list leaves every record that exists in existence, and the commit of an
\* unlink changes nothing of the record but active, which it sets to false,
\* and no other record.
C11_RecordNeverDeleted ==
    [][ /\ \A p \in Pubkeys : nostr_auth[p].exists => nostr_auth'[p].exists
        /\ \A i \in Procs :
              (op[i] = "unlink" /\ pc[i] = "commit" /\ pc'[i] = "idle")
              => /\ nostr_auth[pk[i]].exists
                 /\ nostr_auth' = [nostr_auth EXCEPT ![pk[i]].active = FALSE]
      ]_vars

\* A pubkey was linked, listed and unlinked, and the account was listed
\* again: the record is still there, inactive, and no longer listed
C11_Witness ==
    \E p \in Pubkeys :
        /\ nostr_auth[p].exists /\ ~nostr_auth[p].active
        /\ op[1] = "unlink" /\ result[1] = "ok" /\ pk[1] = p
        /\ listed.returned /\ listed.uid = nostr_auth[p].uid
        /\ listed.pubkeys = <<>>

\* The middleware has served the request, at time clock
Served == response # NoResponse
Authenticating == Served /\ request.path # HeartbeatPath
Reached(c) == \E k \in 1..Len(mwLog) : mwLog[k] = c
RejectedAt(c) ==
    /\ mwLog # <<>> /\ mwLog[Len(mwLog)] = c
    /\ ~response.next /\ response.status # 0

\* C16: an event with created_at = now - 60 or now + 60 passes the
\* timestamp check, one with created_at = now - 61 or now + 61 is rejected
\* by it, for every time now at which the request is served.
C16_FreshnessBoundary ==
    (Authenticating /\ Reached("timestamp")) =>
        LET c == request.header.event.created_at
        IN /\ c \in {I64(clock - Window), I64(clock + Window)}
              => (Reached("url") /\ ~RejectedAt("timestamp"))
           /\ c \in {I64(clock - Window - 1), I64(clock + Window + 1)}
              => (RejectedAt("timestamp") /\ response.body = "Event timestamp out of range")

\* An event exactly 60 seconds old was served and passed on to the URL check
C16_Witness ==
    /\ Authenticating
    /\ request.header.event.created_at = I64(clock - Window)
    /\ Reached("timestamp") /\ Reached("url")

\* created_at is at most 60 seconds away from t
InsideWindow(t, c) == c.hi = 0 /\ c.lo >= t - Window /\ c.lo <= t + Window

\* The tags of e with two or more elements whose first element is name
TagsNamed(e, name) ==
    {k \in 1..Len(e.tags.elems) :
        Len(e.tags.elems[k]) >= 2 /\ e.tags.elems[k][1] = name}

\* C17: for a request to a path other than /heartbeat the middleware calls
\* the downstream handler only if the event has kind 27235, created_at in
\* the freshness window, u and method tags that match the request, Verify
\* true and an active link record for its pubkey, and the firebase_uid of
\* the context is the account of that record.
C17_HandlerOnlyIfAllHold ==
    (Authenticating /\ response.next) =>
        LET e == request.header.event
        IN /\ e.kind = AuthKind
           /\ InsideWindow(clock, e.created_at)
           /\ urlTag(e) = fullURL(request) /\ methodTag(e) = request.method
           /\ Verify(e)
           /\ \E p \in Pubkeys :
                 /\ PubKeyHex(p) = e.pubkey
                 /\ nostr_auth[p].exists /\ nostr_auth[p].active
                 /\ response.firebase_uid = nostr_auth[p].uid

\* A request whose event has the kind and the tags of the request but the
\* smallest created_at was served: it went through the timestamp check and
\* was rejected by Verify, the handler was not called
C17_Witness ==
    /\ Authenticating
    /\ request.header.event.created_at = MinInt64
    /\ Reached("timestamp") /\ ~RejectedAt("timestamp")
    /\ RejectedAt("verify")
    /\ ~response.next /\ response.status = StatusUnauthorized

\* C18: an event without u tag, without method tag, with a u tag other
\* than the reconstructed URL or a method tag other than the method of the
\* request is rejected; so is a URL that differs by a trailing slash or
\* by the order of the query parameters.
C18_BindingExact ==
    Authenticating =>
        LET e == request.header.event
            unbound == \/ TagsNamed(e, <<"u">>) = {}
                       \/ TagsNamed(e, <<"method">>) = {}
                       \/ \E k \in TagsNamed(e, <<"u">>) :
                             e.tags.elems[k][2] # fullURL(request)
                       \/ \E k \in TagsNamed(e, <<"method">>) :
                             e.tags.elems[k][2] # request.method
        IN unbound =>
              /\ ~response.next /\ response.status = StatusUnauthorized
              /\ ~Reached("verify")
              /\ Reached("url") => (RejectedAt("url") \/ RejectedAt("method"))

\* An event whose u tag has a trailing slash too many was rejected by the
\* URL check
C18_Witness ==
    /\ Authenticating
    /\ urlTag(request.header.event) = fullURL(request) \o <<"/">>
    /\ methodTag(request.header.event) = request.method
    /\ RejectedAt("url") /\ response.body = "URL mismatch"

\* C19: Verify is evaluated before any of the binding checks (kind,
\* freshness, URL, method) is evaluated.
C19_VerifyBeforeBinding ==
    \A l \in 1..Len(mwLog) :
        mwLog[l] \in {"kind", "timestamp", "url", "method"}
        => \E k \in 1..(l - 1) : mwLog[k] = "verify"

\* C20: an Authorization header of another scheme, a payload that is not
\* base64 and a payload that is not event JSON are answered with 400; a
\* wrong kind, a timestamp out of range, a URL or method mismatch and a bad
\* signature with 401.
C20_MalformedIs400 ==
    Authenticating =>
        /\ (RejectedAt("scheme") \/ RejectedAt("base64") \/ RejectedAt("json"))
           => response.status = StatusBadRequest
        /\ (RejectedAt("kind") \/ RejectedAt("timestamp") \/ RejectedAt("url")
            \/ RejectedAt("method") \/ RejectedAt("verify"))
           => response.status = StatusUnauthorized

\* C21: a store-level failure of the transaction of link or unlink is
\* answered with status 500, the ownership conflict, not-found and
\* already-unlinked outcomes with 400, and the failed request leaves both
\* collections as they were.
C21_StoreFailureIs500 ==
    [][ \A i \in Procs :
           (pc'[i] = "idle" /\ (pc[i] # "idle" \/ clock' # clock)) =>
              /\ result'[i] \in StoreErrors
                 => /\ HandlerStatus(result'[i]) = StatusInternalServerError
                    /\ nostr_auth' = nostr_auth /\ users' = users
              /\ result'[i] \in CheckErrors
                 => HandlerStatus(result'[i]) = StatusBadRequest
      ]_vars

\* C24: a link request whose body has a pubkey other than the authenticated
\* one is rejected with the mismatch error without LinkPubkeyToUser being
\* called and without a record changing; with no pubkey in the body or
\* the same one, LinkPubkeyToUser is called with the authenticated pubkey.
C24_SignedEventAuthoritative ==
    [][ \A p \in Pubkeys, b \in Pubkeys \cup {0}, u \in Users :
           LinkPubkey(1, p, b, u) =>
              IF b # 0 /\ b # p
              THEN /\ result'[1] = ErrPubkeyMismatch
                   /\ HandlerStatus(result'[1]) = StatusBadRequest
                   /\ op'[1] = "none" /\ pc'[1] = "idle" /\ txLog'[1] = <<>>
                   /\ nostr_auth' = nostr_auth /\ users' = users
              ELSE /\ op'[1] = "link" /\ pk'[1] = p /\ uid'[1] = u
                   /\ nostrAuth'[1] = nostr_auth[p]
                   /\ result'[1] # ErrPubkeyMismatch
      ]_vars

\* A request with another pubkey in its body was rejected while a pubkey
\* was linked, and the link is as it was
C24_Witness ==
    /\ result[1] = ErrPubkeyMismatch /\ op[1] = "none"
    /\ \E p \in Pubkeys : nostr_auth[p].active /\ p \in StoredActive(nostr_auth[p].uid)

\* The request carries an event of the right kind, inside the freshness
\* window, with the u and method tags of the request
WellBound ==
    /\ Authenticating
    /\ request.header.form = "nostr" /\ request.header.b64ok /\ request.header.jsonok
    /\ request.header.event.kind = AuthKind
    /\ ~TimestampOutOfRange(clock, request.header.event.created_at)
    /\ ~URLMismatch(request.header.event, request)
    /\ ~MethodMismatch(request.header.event, request)
RejectionAt(c) ==
    [NoResponse EXCEPT !.status = ErrorOf(c).status, !.body = ErrorOf(c).body]

\* The event has the id and the signature that the holder of the key it
\* names makes for it
CorrectlySigned(e) ==
    \E n \in Pubkeys : e.pubkey = PubKeyHex(n) /\ e = Signed(e, n, "good")

\* C22: a correctly signed and correctly bound event whose pubkey has no
\* record in the directory gets the 'not linked' response of the lookup, a
\* correctly bound event with a forged signature the 'invalid signature'
\* response, and the two responses differ.
C22_NotLinkedDistinct ==
    WellBound =>
        LET e == request.header.event
        IN /\ (/\ CorrectlySigned(e)
               /\ \A p \in Pubkeys : PubKeyHex(p) = e.pubkey => ~nostr_auth[p].exists)
              => (response = RejectionAt("lookup") /\ RejectedAt("lookup"))
           /\ (\E n \in Pubkeys : e.pubkey = PubKeyHex(n) /\ e = Signed(e, n, "forged"))
              => (response = RejectionAt("verify") /\ RejectedAt("verify"))
           /\ RejectionAt("lookup") # RejectionAt("verify")

\* No element of the sequence occurs in it twice
NoDuplicates(seq) == \A k, l \in 1..Len(seq) : k # l => seq[k] # seq[l]

\* The active links of the account, in the state the step leaves
ActiveLinksAfter(u) ==
    {p \in Pubkeys : /\ nostr_auth'[p].exists /\ nostr_auth'[p].active
                      /\ nostr_auth'[p].uid = u}

\* C25: when its query succeeds, GetLinkedPubkeys of account A returns
\* exactly the records that are active and owned by A when it is served,
\* none that is inactive or owned by another account, by ascending
\* linked_at.
C25_ListExactlyActiveOrdered ==
    [][ (listed' # listed /\ listed'.returned /\ ~listed'.orderedFailed) =>
           /\ listed'.err = "none"
           /\ Range(listed'.pubkeys) = ActiveLinksAfter(listed'.uid)
           /\ NoDuplicates(listed'.pubkeys)
           /\ \A k, l \in 1..Len(listed'.pubkeys) :
                 k < l => nostr_auth'[listed'.pubkeys[k]].linked_at
                          < nostr_auth'[listed'.pubkeys[l]].linked_at
      ]_vars

\* Two active links of the account were listed, the pubkey linked first
\* having the higher document id
C25_Witness ==
    /\ listed.returned /\ ~listed.orderedFailed
    /\ Len(listed.pubkeys) = 2
    /\ listed.pubkeys[1] > listed.pubkeys[2]

\* C26: when the ordered query fails, GetLinkedPubkeys runs the unordered
\* query and returns the active links of the account; the call fails only
\* if the unordered query fails too.
C26_FallbackOnOrderedFailure ==
    [][ (listed' # listed /\ listed'.returned /\ listed'.orderedFailed) =>
           /\ listed'.fallback
           /\ listed'.err # "none" => listed'.err = ErrQueryBoth
           /\ listed'.err = "none" =>
                 Range(listed'.pubkeys) = ActiveLinksAfter(listed'.uid)
      ]_vars

\* C30: the list returned for an account contains each active link at most
\* once, also when the ordered query fails part-way and the unordered
\* query is run.
C30_NoDuplicateAfterFallback ==
    (listed.returned /\ listed.err = "none") => NoDuplicates(listed.pubkeys)

\* C27: a successful link(P, A) only adds P to the active_pubkeys of A:
\* every pubkey that was in it is still in it, no other account's record
\* and no other pubkey's link record is changed, also when the read of A's
\* record inside the transaction failed with a store error.
C27_LinkOnlyAdds ==
    [][ \A i \in Procs :
           (op[i] = "link" /\ pc[i] = "commit" /\ pc'[i] = "idle" /\ result'[i] = "ok")
           => /\ StoredActive(uid[i]) \subseteq Range(users'[uid[i]].active_pubkeys)
              /\ pk[i] \in Range(users'[uid[i]].active_pubkeys)
              /\ \A B \in Users \ {uid[i]} : users'[B] = users[B]
              /\ \A q \in Pubkeys \ {pk[i]} : nostr_auth'[q] = nostr_auth[q]
      ]_vars

\* C28: when the lookup of the record of P fails with a store error,
\* link(P, B) does not take P over: a P active under another account A is
\* still active under A after every step of the request.
C28_NoTakeoverOnLookupError ==
    [][ \A i \in Procs, p \in Pubkeys :
           ( /\ op[i] = "link" /\ pk[i] = p /\ pc[i] # "idle"
             /\ nostr_auth[p].exists /\ nostr_auth[p].active
             /\ nostr_auth[p].uid # uid[i] )
           => /\ nostr_auth'[p].active
              /\ nostr_auth'[p].uid = nostr_auth[p].uid
      ]_vars

\* C29: of two concurrent unlink(P, A) on a P active under A at most one
\* succeeds, and an unlink whose ownership check was made before P went to
\* another account never deactivates or overwrites the link of the new
\* owner: every unlink that commits finds P active under its own account.
C29_OneUnlinkSucceeds ==
    [][ \A i \in Procs :
           (op[i] = "unlink" /\ pc[i] = "commit" /\ pc'[i] = "idle" /\ result'[i] = "ok")
           => /\ nostr_auth[pk[i]].exists
              /\ nostr_auth[pk[i]].active
              /\ nostr_auth[pk[i]].uid = uid[i]
      ]_vars

====
